---- MODULE Spec2Model ----
(***************************************************************************)
(* Model of export_dicom_tags.py: the value sanitizer, the tag parser, the *)
(* tabulator, the persistence writer, the raw dumper and run_pipeline.     *)
(*                                                                         *)
(* A text value is a sequence of one-character strings, so that removing   *)
(* characters and collapsing spaces are computed as the code computes      *)
(* them.  Codec names of the transfer syntax map and other markers are     *)
(* atoms (TLA+ strings).                                                   *)
(***************************************************************************)
EXTENDS Integers, Sequences, FiniteSets, TLC

VARIABLES
    pc,              \* position of the run
    raw,             \* sanitize_tag: the argument
    clean,           \* sanitize_tag: the value returned last
    clean_once,      \* sanitize_tag: the value returned by the first call
    sanitize_values, \* parse_tags: the flag
    dicom_paths,     \* the list of paths given to parse_tags and to the dumper
    tag_dumps,       \* parse_tags: the list returned
    attempted,       \* parse_tags: the names of the paths its loop took up, in order
    input_dir,       \* entries of the input directory
    df,              \* extract_to_df: the table, or None
    out_dir,         \* the two artifacts of the output directory
    dump_dir,        \* the .txt files of the dump directory
    dump_log,        \* per finished dumper run: its inputs and their outcomes
    is_saved,        \* write_to_file: the value returned
    write_fault,     \* the failure that struck write_to_file, if any
    dump_result,     \* last dumper run: the inputs whose dump opened / succeeded
    raised,          \* the exception that left the running function, or "none"
    stages           \* the stages of run_pipeline entered so far, in order

vars == <<pc, raw, clean, clean_once, sanitize_values, dicom_paths, tag_dumps, attempted,
          input_dir, df, out_dir, dump_dir, dump_log, is_saved, write_fault,
          dump_result, raised, stages>>

sanitizer_vars == <<raw, clean, clean_once>>
parser_vars == <<sanitize_values, dicom_paths, tag_dumps, attempted>>
pipeline_vars == <<input_dir, df, out_dir, dump_dir, dump_log, is_saved, write_fault,
                   dump_result, raised, stages>>

\* ------------------------------------------------------------------ bounds
MaxLen == 4      \* longest raw string given to sanitize_tag
MaxFiles == 2    \* most entries of the input directory / paths of a batch
MaxRuns == 2     \* most successive runs of the dumper

\* An optional value: None, or Some(v) holding v.
None == <<>>
Some(v) == <<v>>
Val(o) == o[1]

\* a tag the file does not have
Absent == None

\* write_to_file met no failure
NoFault == [at |-> "none", exc |-> "none"]

\* no dumper run has finished
NoResult == [before |-> {}, opened |-> {}, ok |-> {}]

\* All sequences over S of length at most n.
SeqsUpTo(S, n) == UNION {[1..k -> S] : k \in 0..n}

\* ---------------------------------------------------------------- sanitizer
\* the grave accent of string.punctuation, which no TLA+ string can hold
BackQuote == "BACKQUOTE"

\* string.punctuation
Punctuation ==
    {"!", "\"", "#", "$", "%", "&", "'", "(", ")", "*", "+", ",", "-", ".", "/",
     ":", ";", "<", "=", ">", "?", "@", "[", "\\", "]", "^", "_", BackQuote, "{", "|",
     "}", "~"}

\* the characters sanitize_tag retains
Keep == {"-", "+", "_", ":", ".", "|"}

\* invalid = list(string.punctuation + "\t" + "\n") minus the retained ones
Invalid == (Punctuation \cup {"\t", "\n"}) \ Keep

\* for char in raw: if char not in invalid: clean += char
RemoveInvalid(s) == SelectSeq(s, LAMBDA c : c \notin Invalid)

\* "  " in clean
HasDoubleSpace(s) == \E i \in 1..(Len(s) - 1) : s[i] = " " /\ s[i + 1] = " "

\* clean.replace("  ", " "): one left-to-right pass over non-overlapping matches
RECURSIVE ReplaceDouble(_)
ReplaceDouble(s) ==
    IF Len(s) < 2 THEN s
    ELSE IF s[1] = " " /\ s[2] = " "
         THEN <<" ">> \o ReplaceDouble(SubSeq(s, 3, Len(s)))
         ELSE <<s[1]>> \o ReplaceDouble(Tail(s))

\* a faulty Collapse: a single replace pass, no loop
CollapseOnce(s) == ReplaceDouble(s)

\* while "  " in clean: clean = clean.replace("  ", " ")
RECURSIVE Collapse(_)
Collapse(s) == IF HasDoubleSpace(s) THEN Collapse(ReplaceDouble(s)) ELSE s

\* a faulty sanitize_tag: spaces collapsed before the symbols are removed
sanitize_collapse_first(s) == RemoveInvalid(Collapse(s))

sanitize_tag(s) == Collapse(RemoveInvalid(s))

\* the characters raw strings are drawn from: a letter, the space, the six
\* retained characters, two removed symbols, tab and newline
Alphabet == {"a", " ", "-", "+", "_", ":", ".", "|", "!", "@", "\t", "\n"}

InitSanitize ==
    /\ pc = "sanitize"
    /\ raw \in SeqsUpTo(Alphabet, MaxLen)
    /\ clean = <<>>
    /\ clean_once = <<>>
    /\ sanitize_values = FALSE
    /\ dicom_paths = <<>>
    /\ tag_dumps = <<>>
    /\ attempted = <<>>
    /\ input_dir = <<>>
    /\ df = None
    /\ out_dir = <<>>
    /\ dump_dir = <<>>
    /\ dump_log = <<>>
    /\ is_saved = FALSE
    /\ write_fault = NoFault
    /\ dump_result = NoResult
    /\ raised = "none"
    /\ stages = <<>>

\* clean = sanitize_tag(raw)
SanitizeTag ==
    /\ pc = "sanitize"
    /\ clean' = sanitize_tag(raw)
    /\ clean_once' = sanitize_tag(raw)
    /\ pc' = "sanitized"
    /\ UNCHANGED <<raw, parser_vars, pipeline_vars>>

\* clean = sanitize_tag(clean)
SanitizeAgain ==
    /\ pc = "sanitized"
    /\ clean' = sanitize_tag(clean)
    /\ pc' = "resanitized"
    /\ UNCHANGED <<raw, clean_once, parser_vars, pipeline_vars>>

NextSanitize == SanitizeTag \/ SanitizeAgain

SpecSanitize == InitSanitize /\ [][NextSanitize]_vars

\* C5: sanitize_tag is idempotent: sanitizing the sanitized value returns it
\* unchanged.
C5_Idempotent == pc = "resanitized" => clean = clean_once

\* a raw string that sanitize_tag changes has been sanitized twice
C5_Witness == pc = "resanitized" /\ clean_once # raw /\ HasDoubleSpace(RemoveInvalid(raw))

\* C6: the value returned keeps every occurrence of - + _ : . | in order, holds
\* no other punctuation, no tab, no newline, and no two consecutive spaces.
C6_Whitelist ==
    pc = "sanitized" =>
        /\ SelectSeq(clean, LAMBDA c : c \in Keep) = SelectSeq(raw, LAMBDA c : c \in Keep)
        /\ \A i \in 1..Len(clean) : clean[i] \notin (Punctuation \ Keep) \cup {"\t", "\n"}
        /\ ~HasDoubleSpace(clean)

\* two spaces became adjacent only because the symbol between them was removed,
\* and a retained character was kept
C6_Witness ==
    /\ pc = "sanitized"
    /\ ~HasDoubleSpace(raw)
    /\ HasDoubleSpace(RemoveInvalid(raw))
    /\ \E i \in 1..Len(clean) : clean[i] \in Keep

\* ------------------------------------------------------------------- parser
Range(f) == {f[x] : x \in DOMAIN f}

\* f with key k set to v (a dict assignment: the key is added when missing)
Put(f, k, v) == [x \in DOMAIN f \cup {k} |-> IF x = k THEN v ELSE f[x]]

UidRoot == <<"1", ".", "2", ".", "8", "4", "0", ".", "1", "0", "0", "0", "8", ".", "1", ".", "2">>
UidImplicit == UidRoot
UidExplicit == UidRoot \o <<".", "1">>
UidUnknown == <<"9", ".", "9">>

\* get_transfer_syntax_map(): pairs <<UID, name>>
get_transfer_syntax_map ==
    {<<UidRoot, "ImplicitVRLittleEndian">>,
     <<UidRoot \o <<".", "1">>, "ExplicitVRLittleEndian">>,
     <<UidRoot \o <<".", "2">>, "ExplicitVRBigEndian">>,
     <<UidRoot \o <<".", "4", ".", "5", "0">>, "JPEGBaseLineLossy8bit">>,
     <<UidRoot \o <<".", "4", ".", "5", "1">>, "JPEGBaseLineLossy12bit">>,
     <<UidRoot \o <<".", "4", ".", "7", "0">>, "JPEGLossless">>,
     <<UidRoot \o <<".", "4", ".", "8", "0">>, "JPEGLSLossless">>,
     <<UidRoot \o <<".", "4", ".", "9", "0">>, "JPEG2000Lossless">>,
     <<UidRoot \o <<".", "4", ".", "9", "1">>, "JPEG2000Lossy">>,
     <<UidRoot \o <<".", "5">>, "RLELossless">>}

\* syntax_map.get(key, default)
MapGet(map, key, default) ==
    IF \E p \in map : p[1] = key
    THEN (CHOOSE p \in map : p[1] = key)[2]
    ELSE default

\* a faulty map_tag_objects: transferSyntaxUid listed ahead of sourceAET
map_tag_objects_syntax_early ==
    <<"modality", "sopInstanceUid", "institution_name", "manufacturer",
      "manufacturer_model", "transferSyntaxUid", "station_name", "study_description",
      "study_date", "study_time", "sourceAET">>

\* map_tag_objects(): the attribute names, in the order of the dict
map_tag_objects ==
    <<"modality", "sopInstanceUid", "institution_name", "manufacturer",
      "manufacturer_model", "sourceAET", "station_name", "study_description",
      "study_date", "study_time", "transferSyntaxUid">>

\* the attributes parse_tags reads from ds.file_meta
MetaAttrs == {"sopInstanceUid", "sourceAET", "transferSyntaxUid"}

\* the attributes parse_tags reads from the dataset
DatasetAttrs ==
    {"modality", "institution_name", "manufacturer", "manufacturer_model",
     "station_name", "study_description", "study_date", "study_time"}

\* headers of init_header_map
Headers == <<"filename">> \o map_tag_objects

\* init_header_map(filename)
init_header_map(filename) ==
    [hdr \in Range(Headers) |-> IF hdr = "filename" THEN filename ELSE <<>>]

\* src_dcm.name
PathName(p) == <<p.stem, p.ext>>

\* pydicom.misc.is_dicom(src_dcm): True, False, or OSError on a file it cannot open
is_dicom(p) == p.sniff

\* pydicom.dcmread(src_dcm, stop_before_pixels=True): "ok" or the exception raised;
\* a file without the DICM marker is refused, one that cannot be opened raises OSError
dcmread(p) ==
    IF p.sniff = "dicom" THEN p.read
    ELSE IF p.sniff = "not_dicom" THEN "InvalidDicomError" ELSE "OSError"

\* the body of "for attr, tag_obj in map_tag_objects().items()", from attribute i on
RECURSIVE extract_attrs(_, _, _, _)
extract_attrs(i, p, sanitize, extract) ==
    IF i > Len(map_tag_objects) THEN extract
    ELSE LET attr == map_tag_objects[i] IN
         IF attr \in MetaAttrs
         THEN IF p.file_meta[attr] # Absent
              THEN extract_attrs(i + 1, p, sanitize,
                       Put(Put(extract, attr, Val(p.file_meta[attr])),
                           "transferSyntaxName",
                           MapGet(get_transfer_syntax_map, Val(p.file_meta[attr]), "")))
              ELSE extract_attrs(i + 1, p, sanitize, extract)
         ELSE IF p.ds[attr] # Absent
              THEN extract_attrs(i + 1, p, sanitize,
                       Put(extract, attr,
                           IF sanitize THEN sanitize_tag(Val(p.ds[attr]))
                                       ELSE Val(p.ds[attr])))
              ELSE extract_attrs(i + 1, p, sanitize, extract)

\* a faulty ParseCaught: InvalidDicomError is not handled
ParseCaughtNoInvalid == {"OSError", "ValueError", "KeyError"}

\* except (OSError, ValueError, KeyError, InvalidDicomError)
ParseCaught == {"OSError", "ValueError", "KeyError", "InvalidDicomError"}

\* the try block of parse_tags for one path: the exception raised in it, or
\* "none" and the record appended
parse_one(p, sanitize) ==
    IF is_dicom(p) = "oserror" THEN [exc |-> "OSError", extract |-> None]
    ELSE IF is_dicom(p) # "dicom" THEN [exc |-> "InvalidDicomError", extract |-> None]
    ELSE IF dcmread(p) # "ok" THEN [exc |-> dcmread(p), extract |-> None]
    ELSE [exc |-> "none",
          extract |-> extract_attrs(1, p, sanitize, init_header_map(PathName(p)))]

\* a faulty parse_from: the header map is made once and carried from one file
\* to the next, only its filename being set anew
RECURSIVE parse_from_shared(_, _, _, _, _)
parse_from_shared(i, paths, sanitize, dumps, tried) ==
    IF i > Len(paths) THEN [tag_dumps |-> dumps, raised |-> "none", attempted |-> tried]
    ELSE LET r == parse_one(paths[i], sanitize)
             carried == IF dumps = <<>> THEN init_header_map(PathName(paths[i]))
                        ELSE Put(dumps[Len(dumps)], "filename", PathName(paths[i]))
         IN
         IF r.exc = "none"
         THEN parse_from_shared(i + 1, paths, sanitize,
                  Append(dumps, extract_attrs(1, paths[i], sanitize, carried)),
                  Append(tried, PathName(paths[i])))
         ELSE parse_from_shared(i + 1, paths, sanitize, dumps,
                  Append(tried, PathName(paths[i])))

\* parse_tags, from path i on, with the records gathered and the paths taken up
\* so far: "for src_dcm in dicom_paths" takes up each path once
RECURSIVE parse_from(_, _, _, _, _)
parse_from(i, paths, sanitize, dumps, tried) ==
    IF i > Len(paths) THEN [tag_dumps |-> dumps, raised |-> "none", attempted |-> tried]
    ELSE LET r == parse_one(paths[i], sanitize) IN
         IF r.exc = "none"
         THEN parse_from(i + 1, paths, sanitize, Append(dumps, r.extract),
                         Append(tried, PathName(paths[i])))
         ELSE IF r.exc \in ParseCaught
         THEN parse_from(i + 1, paths, sanitize, dumps, Append(tried, PathName(paths[i])))
         ELSE [tag_dumps |-> dumps, raised |-> r.exc,
               attempted |-> Append(tried, PathName(paths[i]))]

parse_tags(paths, sanitize) == parse_from(1, paths, sanitize, <<>>, <<>>)

\* ---- the files of the model
AET == <<"A", "E", "@", "1">>
CT == <<"C", "T">>
Description == <<"a", "!", " ", " ", "b">>
Date == <<"2", "0", "2", "3", "0", "1", "1", "5">>
Time == <<"0", "9", "3", "0", "0", "0">>

NoMeta == [a \in MetaAttrs |-> Absent]
NoTags == [a \in DatasetAttrs |-> Absent]

MetaChoices ==
    {[sopInstanceUid |-> s, sourceAET |-> a, transferSyntaxUid |-> t] :
        s \in {Absent, Some(UidImplicit), Some(UidUnknown)},
        a \in {Absent, Some(AET)},
        t \in {Absent, Some(UidExplicit), Some(UidUnknown)}}

SomeTags ==
    [a \in DatasetAttrs |->
        CASE a = "modality" -> Some(CT)
          [] a = "study_description" -> Some(Description)
          [] a = "study_date" -> Some(Date)
          [] a = "study_time" -> Some(Time)
          [] OTHER -> Absent]

DatasetChoices == {NoTags, SomeTags}

\* what a file holds: the readable ones (dataset tags vary on the files without
\* an SOP instance UID) and four unreadable ones
Contents ==
    {c \in {[sniff |-> "dicom", read |-> "ok", file_meta |-> m, ds |-> d] :
                m \in MetaChoices, d \in DatasetChoices} :
        c.ds = NoTags \/ c.file_meta["sopInstanceUid"] = Absent}
    \cup
    {[sniff |-> sn, read |-> rd, file_meta |-> NoMeta, ds |-> NoTags] :
        sn \in {"not_dicom", "oserror"}, rd \in {"InvalidDicomError"}}
    \cup
    {[sniff |-> "dicom", read |-> rd, file_meta |-> NoMeta, ds |-> NoTags] :
        rd \in {"InvalidDicomError", "ValueError"}}

\* the regular file stem.dcm holding c
DcmFile(stem, c) ==
    [stem |-> stem, ext |-> ".dcm", is_file |-> TRUE, sniff |-> c.sniff,
     read |-> c.read, file_meta |-> c.file_meta, ds |-> c.ds]

\* marks a stem with no file
NoEntry == [sniff |-> "no_entry", read |-> "no_entry", file_meta |-> NoMeta, ds |-> NoTags]

\* the entries of g (stem -> contents or NoEntry), in ascending stem order
RECURSIVE Listing(_, _)
Listing(g, i) ==
    IF i > MaxFiles THEN <<>>
    ELSE IF g[i].sniff = "no_entry" THEN Listing(g, i + 1)
         ELSE <<DcmFile(i, g[i])>> \o Listing(g, i + 1)

PathLists == {Listing(g, 1) : g \in [1..MaxFiles -> Contents \cup {NoEntry}]}

InitParse ==
    /\ pc = "parse"
    /\ raw = <<>>
    /\ clean = <<>>
    /\ clean_once = <<>>
    /\ sanitize_values \in BOOLEAN
    /\ dicom_paths \in PathLists
    /\ tag_dumps = <<>>
    /\ attempted = <<>>
    /\ input_dir = <<>>
    /\ df = None
    /\ out_dir = <<>>
    /\ dump_dir = <<>>
    /\ dump_log = <<>>
    /\ is_saved = FALSE
    /\ write_fault = NoFault
    /\ dump_result = NoResult
    /\ raised = "none"
    /\ stages = <<>>

\* tag_dumps = parse_tags(dicom_paths, sanitize_values)
ParseTags ==
    /\ pc = "parse"
    /\ tag_dumps' = parse_tags(dicom_paths, sanitize_values).tag_dumps
    /\ raised' = parse_tags(dicom_paths, sanitize_values).raised
    /\ attempted' = parse_tags(dicom_paths, sanitize_values).attempted
    /\ pc' = "parsed"
    /\ UNCHANGED <<sanitizer_vars, sanitize_values, dicom_paths, input_dir, df,
                   out_dir, dump_dir, dump_log, is_saved, write_fault, dump_result,
                   stages>>

NextParse == ParseTags

SpecParse == InitParse /\ [][NextParse]_vars

\* number of paths of the list that satisfy Ok
Count(paths, Ok(_)) == Cardinality({i \in 1..Len(paths) : Ok(paths[i])})

PassesSniff(p) == is_dicom(p) = "dicom"
Opens(p) == is_dicom(p) = "dicom" /\ dcmread(p) = "ok"

\* the filename values of the records
RecordNames == {tag_dumps[i]["filename"] : i \in 1..Len(tag_dumps)}

\* C1 as stated: the number of records equals the number of paths that pass
\* is_dicom, and no error leaves parse_tags.
C1_CountEqualsSniffed ==
    pc = "parsed" =>
        /\ Len(tag_dumps) = Count(dicom_paths, PassesSniff)
        /\ raised = "none"

\* C1 amended: the number of records equals the number of paths that pass
\* is_dicom and that dcmread then reads; every other path, one failing is_dicom
\* included, has no record, and no error leaves parse_tags.
C1_CountEqualsOpened ==
    pc = "parsed" =>
        /\ Len(tag_dumps) = Count(dicom_paths, Opens)
        /\ \A i \in 1..Len(dicom_paths) :
              ~Opens(dicom_paths[i]) => PathName(dicom_paths[i]) \notin RecordNames
        /\ raised = "none"

\* a batch with a path failing is_dicom, a path passing it that dcmread
\* refuses, and a record
C1_Witness ==
    /\ pc = "parsed"
    /\ \E i \in 1..Len(dicom_paths) : is_dicom(dicom_paths[i]) = "not_dicom"
    /\ \E i \in 1..Len(dicom_paths) :
          PassesSniff(dicom_paths[i]) /\ ~Opens(dicom_paths[i])
    /\ Len(tag_dumps) = Len(dicom_paths) - 2

\* the columns of the output table that parse_tags is to fill
Columns == Range(Headers) \cup {"transferSyntaxName"}

\* C3: every record has a key for every column; transferSyntaxName too for a
\* file with none of the three metadata attributes.
C3_EveryColumn ==
    pc = "parsed" => \A i \in 1..Len(tag_dumps) : Columns \subseteq DOMAIN tag_dumps[i]

\* the path a record was made from
PathOf(rec) == CHOOSE p \in Range(dicom_paths) : PathName(p) = rec["filename"]

\* C8: the record of a file with a transfer-syntax identifier has the map's
\* name of that identifier as transferSyntaxName (ExplicitVRLittleEndian for
\* 1.2.840.10008.1.2.1, the empty string for an unknown one), whatever the
\* other two metadata attributes are.
C8_SyntaxName ==
    pc = "parsed" =>
        \A i \in 1..Len(tag_dumps) :
            LET rec == tag_dumps[i]
                uid == PathOf(rec).file_meta["transferSyntaxUid"]
            IN uid # Absent =>
                /\ "transferSyntaxName" \in DOMAIN rec
                /\ rec["transferSyntaxName"] = MapGet(get_transfer_syntax_map, Val(uid), "")
                /\ Val(uid) = UidExplicit => rec["transferSyntaxName"] = "ExplicitVRLittleEndian"
                /\ Val(uid) = UidUnknown => rec["transferSyntaxName"] = ""

\* a record whose file has a known transfer syntax, an SOP instance UID that is
\* itself a key of the map, and a source AET
C8_Witness ==
    /\ pc = "parsed"
    /\ \E i \in 1..Len(tag_dumps) :
          LET m == PathOf(tag_dumps[i]).file_meta
          IN /\ m["transferSyntaxUid"] = Some(UidExplicit)
             /\ m["sopInstanceUid"] = Some(UidImplicit)
             /\ m["sourceAET"] = Some(AET)
             /\ tag_dumps[i]["transferSyntaxName"] = "ExplicitVRLittleEndian"

\* ---------------------------------------------------------------- tabulator
Digits == <<"0", "1", "2", "3", "4", "5", "6", "7", "8", "9">>
IsNumber(s) == s # <<>> /\ \A i \in 1..Len(s) : s[i] \in Range(Digits)
DigitVal(c) == (CHOOSE i \in 1..Len(Digits) : Digits[i] = c) - 1

\* the decimal value of a string of digits
RECURSIVE Number(_)
Number(s) ==
    IF s = <<>> THEN 0
    ELSE 10 * Number(SubSeq(s, 1, Len(s) - 1)) + DigitVal(s[Len(s)])

TwoDigits(n) == <<Digits[(n \div 10) + 1], Digits[(n % 10) + 1]>>

\* a cell pandas fills with NaN: of a text column, of the codec name column
NaNText == <<"NaN">>
NaN == "NaN"

\* datetime.now().strftime("%Y-%m-%d %H:%M:%S"): the clock is not modelled
ExtractDate == "now"

DaysIn(y, m) ==
    IF m \in {4, 6, 9, 11} THEN 30
    ELSE IF m # 2 THEN 31
    ELSE IF y % 4 = 0 /\ (y % 100 # 0 \/ y % 400 = 0) THEN 29 ELSE 28

\* pd.to_datetime(v, errors="coerce").strftime("%Y-%m-%d") of a cell, for the
\* YYYYMMDD values of DICOM dates; any other value of the model is coerced to
\* NaT, which strftime renders as NaN
to_study_date(v) ==
    IF Len(v) = 8 /\ IsNumber(v)
       /\ Number(SubSeq(v, 5, 6)) \in 1..12
       /\ Number(SubSeq(v, 7, 8)) \in 1..DaysIn(Number(SubSeq(v, 1, 4)), Number(SubSeq(v, 5, 6)))
    THEN SubSeq(v, 1, 4) \o <<"-">> \o SubSeq(v, 5, 6) \o <<"-">> \o SubSeq(v, 7, 8)
    ELSE NaNText

\* pd.to_datetime(v, unit="s", errors="coerce").strftime("%H:%M:%S %p"): a
\* string of digits is a number of seconds since the epoch
to_study_time(v) ==
    IF IsNumber(v)
    THEN LET secs == Number(v) % 86400
             hh == secs \div 3600
         IN TwoDigits(hh) \o <<":">> \o TwoDigits((secs % 3600) \div 60) \o <<":">>
            \o TwoDigits(secs % 60) \o <<" ">> \o (IF hh < 12 THEN <<"A", "M">> ELSE <<"P", "M">>)
    ELSE NaNText

\* columns of pd.DataFrame(tag_dumps): the keys in order of first appearance
\* (transferSyntaxName is added to a record after its header keys), then
\* extract_date
df_columns(dumps) ==
    Headers
    \o (IF \E i \in 1..Len(dumps) : "transferSyntaxName" \in DOMAIN dumps[i]
        THEN <<"transferSyntaxName">> ELSE <<>>)
    \o <<"extract_date">>

\* one row of the table after the conversions of extract_to_df
df_row(rec, columns) ==
    [c \in Range(columns) |->
        CASE c = "extract_date" -> ExtractDate
          [] c = "study_date" -> to_study_date(rec[c])
          [] c = "study_time" -> to_study_time(rec[c])
          [] c \in DOMAIN rec -> rec[c]
          [] OTHER -> NaN]

\* except (PermissionError, ValueError, pd.errors.DtypeWarning) of extract_to_df
ExtractCaught == {"PermissionError", "ValueError", "DtypeWarning"}

\* extract_to_df(dicom_paths): the records, the table or None, and the exception
\* that leaves it
extract_to_df(paths) ==
    LET r == parse_tags(paths, FALSE) IN
    IF r.raised # "none"
    THEN [tag_dumps |-> r.tag_dumps, df |-> None,
          raised |-> IF r.raised \in ExtractCaught THEN "none" ELSE r.raised]
    ELSE IF Len(r.tag_dumps) > 0
         THEN [tag_dumps |-> r.tag_dumps,
               df |-> Some([columns |-> df_columns(r.tag_dumps),
                            rows |-> [i \in 1..Len(r.tag_dumps) |->
                                         df_row(r.tag_dumps[i], df_columns(r.tag_dumps))]]),
               raised |-> "none"]
         ELSE [tag_dumps |-> r.tag_dumps, df |-> None, raised |-> "none"]

\* ------------------------------------------------------------------- writer
\* An artifact of the output directory is None (no file) or Some(content):
\* "old" is content of an earlier run, "new" the table of this run, "partial"
\* what a write that failed midway left.

\* the failures that can strike write_to_file: where, and the exception
WriteFaults ==
    {NoFault,
     [at |-> "json_unlink", exc |-> "PermissionError"],
     [at |-> "to_json", exc |-> "PermissionError"],
     [at |-> "to_json", exc |-> "ValueError"],
     [at |-> "csv_unlink", exc |-> "PermissionError"],
     [at |-> "to_csv", exc |-> "PermissionError"],
     [at |-> "to_csv", exc |-> "ValueError"]}

\* except (PermissionError, ValueError, pd.errors.DtypeWarning) of write_to_file
WriteCaught == {"PermissionError", "ValueError", "DtypeWarning"}

\* the except clause of write_to_file, entered with exception exc: the handler
\* logs limit_path(path=csv_path), which is unbound until the JSON step is over
write_handler(exc, csv_path_bound) ==
    IF exc \notin WriteCaught THEN exc
    ELSE IF csv_path_bound THEN "none" ELSE "UnboundLocalError"

\* write_to_file(df, dst_folder) with failure f: the output directory left, the
\* value returned, the exception that leaves it, and whether f struck
write_to_file(d, out, f) ==
    IF out.json # None /\ f.at = "json_unlink"
    THEN [out |-> out, ret |-> FALSE, raised |-> write_handler(f.exc, FALSE), struck |-> TRUE]
    ELSE IF d = None
    THEN \* None.to_json: AttributeError, which the except clause does not name
         [out |-> [out EXCEPT !.json = None], ret |-> FALSE,
          raised |-> write_handler("AttributeError", FALSE), struck |-> FALSE]
    ELSE IF f.at = "to_json"
    THEN [out |-> [out EXCEPT !.json = None], ret |-> FALSE,
          raised |-> write_handler(f.exc, FALSE), struck |-> TRUE]
    ELSE IF out.csv # None /\ f.at = "csv_unlink"
    THEN [out |-> [out EXCEPT !.json = Some("new")], ret |-> FALSE,
          raised |-> write_handler(f.exc, TRUE), struck |-> TRUE]
    ELSE IF f.at = "to_csv"
    THEN [out |-> [json |-> Some("new"),
                   csv |-> IF f.exc = "PermissionError" THEN None ELSE Some("partial")],
          ret |-> FALSE, raised |-> write_handler(f.exc, TRUE), struck |-> TRUE]
    ELSE [out |-> [json |-> Some("new"), csv |-> Some("new")], ret |-> TRUE,
          raised |-> "none", struck |-> FALSE]

\* ------------------------------------------------------------------- dumper
\* A .txt file of the dump directory is None or Some([run, size]): the dumper
\* run that wrote it (0: before the first) and whether the listing is in it.

\* what can strike one dump after dcmread: nothing, open() failing, str(ds) or
\* the write failing once the file is open
DumpFaults == {"ok", "open_fails", "write_fails"}

\* dump_tags_to_txt(src_dcm, dst_folder) in run n with failure f: the file left
\* at <stem>.txt, given the one there before
dump_tags_to_txt(p, before, n, f) ==
    IF dcmread(p) # "ok" THEN before
    ELSE IF f = "open_fails" THEN before
    ELSE IF f = "write_fails" THEN Some([run |-> n, size |-> "incomplete"])
    ELSE Some([run |-> n, size |-> "full"])

\* a faulty purge: the prior dumps are left in place
purge_skipped(dir) == dir

\* "for txt_path in txt_paths: txt_path.unlink(missing_ok=True)", over every
\* .txt file of the directory
purge(dir) == [st \in DOMAIN dir |-> None]

\* "for dcm_path in dicom_paths: dump_tags_to_txt(...)", from path i on
RECURSIVE dump_from(_, _, _, _, _)
dump_from(i, paths, dir, n, faults) ==
    IF i > Len(paths) THEN dir
    ELSE dump_from(i + 1, paths,
             [dir EXCEPT ![paths[i].stem] =
                 dump_tags_to_txt(paths[i], dir[paths[i].stem], n, faults[paths[i].stem])],
             n, faults)

\* dump_dicom_all_tags(dicom_paths, dst_folder) as run n
dump_dicom_all_tags(paths, dir, n, faults) ==
    dump_from(1, paths, purge(dir), n, faults)

Stems(paths) == {paths[i].stem : i \in 1..Len(paths)}

\* the stems with a .txt file in dir
TxtFiles(dir) == {st \in DOMAIN dir : dir[st] # None}

\* of a run: the .txt files there before it, the inputs whose dump opened its
\* .txt file, and those whose dump wrote it
dump_outcome(paths, faults, dir) ==
    [before |-> TxtFiles(dir),
     opened |-> {paths[i].stem : i \in {j \in 1..Len(paths) :
                     dcmread(paths[j]) = "ok" /\ faults[paths[j].stem] # "open_fails"}},
     ok |-> {paths[i].stem : i \in {j \in 1..Len(paths) :
                     dcmread(paths[j]) = "ok" /\ faults[paths[j].stem] = "ok"}}]

\* what the files given to the dumper hold
DumpContents ==
    {[sniff |-> "dicom", read |-> "ok", file_meta |-> NoMeta, ds |-> SomeTags],
     [sniff |-> "not_dicom", read |-> "InvalidDicomError", file_meta |-> NoMeta, ds |-> NoTags]}

\* the failures that can strike the dumps of paths: one choice for each path
\* that dcmread reads
FaultsFor(paths) ==
    {f \in [1..MaxFiles -> DumpFaults] :
        \A st \in 1..MaxFiles :
            f[st] # "ok" => \E i \in 1..Len(paths) : paths[i].stem = st /\ dcmread(paths[i]) = "ok"}

DumpLists == {Listing(g, 1) : g \in [1..MaxFiles -> DumpContents \cup {NoEntry}]}

InitDump ==
    /\ pc = "dump"
    /\ raw = <<>>
    /\ clean = <<>>
    /\ clean_once = <<>>
    /\ sanitize_values = FALSE
    /\ dicom_paths = <<>>
    /\ tag_dumps = <<>>
    /\ attempted = <<>>
    /\ input_dir = <<>>
    /\ df = None
    /\ out_dir = <<>>
    /\ dump_dir \in [1..MaxFiles -> {None, Some([run |-> 0, size |-> "full"])}]
    /\ dump_log = <<>>
    /\ is_saved = FALSE
    /\ write_fault = NoFault
    /\ dump_result = NoResult
    /\ raised = "none"
    /\ stages = <<>>

\* one more run of dump_dicom_all_tags on the same dump directory
DumpRun ==
    /\ pc = "dump"
    /\ Len(dump_log) < MaxRuns
    /\ \E paths \in DumpLists : \E faults \in FaultsFor(paths) :
          /\ dicom_paths' = paths
          /\ dump_dir' = dump_dicom_all_tags(paths, dump_dir, Len(dump_log) + 1, faults)
          /\ dump_result' = dump_outcome(paths, faults, dump_dir)
          /\ dump_log' = Append(dump_log, Stems(paths))
    /\ UNCHANGED <<pc, sanitizer_vars, sanitize_values, tag_dumps, attempted, input_dir, df, out_dir,
                   is_saved, write_fault, raised, stages>>

NextDump == DumpRun

SpecDump == InitDump /\ [][NextDump]_vars

\* the stems with a .txt file in the dump directory
DumpFiles == TxtFiles(dump_dir)

\* C7 as stated: after two or more runs no .txt file of an earlier run remains,
\* and the .txt files present are only those of last-run inputs whose dump
\* succeeded.
C7_OnlySucceededDumps ==
    Len(dump_log) >= 2 =>
        /\ \A st \in DumpFiles : Val(dump_dir[st]).run = Len(dump_log)
        /\ DumpFiles \subseteq dump_result.ok

\* C7 amended: after two or more runs no .txt file of an earlier run remains:
\* every .txt file present was written by the last run, for one of its inputs
\* whose dump got as far as opening the .txt file; those whose dump succeeded
\* hold the listing, and a dump that failed after the open leaves its file,
\* without the full listing.
C7_OnlyLastRunDumps ==
    Len(dump_log) >= 2 =>
        /\ \A st \in DumpFiles : Val(dump_dir[st]).run = Len(dump_log)
        /\ DumpFiles = dump_result.opened
        /\ \A st \in DumpFiles : Val(dump_dir[st]).size = "full" <=> st \in dump_result.ok

\* the first run left a .txt file for one of its inputs, the second run lacks
\* that input and removed the file, and the second run left a .txt file
C7_Witness ==
    /\ Len(dump_log) = 2
    /\ \E st \in (dump_log[1] \cap dump_result.before) \ dump_log[2] : dump_dir[st] = None
    /\ DumpFiles # {}

\* ----------------------------------------------------------------- pipeline
\* the extensions find_dicom accepts
AllowedExt == {".dcm", ".dicom", ".gz", ".nii"}

\* sorted(...): the entries in ascending path order
RECURSIVE SortByStem(_)
SortByStem(S) ==
    IF S = {} THEN <<>>
    ELSE LET m == CHOOSE e \in S : \A o \in S : e.stem <= o.stem
         IN <<m>> \o SortByStem(S \ {m})

\* find_dicom(src_folder, file_ext, include_recursive=False) on a folder with
\* these entries
find_dicom(entries, is_dir, file_ext) ==
    IF is_dir /\ file_ext \in AllowedExt
    THEN SortByStem({e \in entries : e.ext = file_ext /\ e.is_file})
    ELSE <<>>

\* what the .dcm files of the input directory hold
PipelineContents ==
    {[sniff |-> "dicom", read |-> "ok",
      file_meta |-> [sopInstanceUid |-> Some(UidUnknown), sourceAET |-> Some(AET),
                     transferSyntaxUid |-> Some(UidExplicit)],
      ds |-> SomeTags],
     [sniff |-> "dicom", read |-> "ok", file_meta |-> NoMeta, ds |-> NoTags],
     [sniff |-> "not_dicom", read |-> "InvalidDicomError", file_meta |-> NoMeta, ds |-> NoTags],
     [sniff |-> "dicom", read |-> "InvalidDicomError", file_meta |-> NoMeta, ds |-> NoTags]}

\* the entries a stem can stand for: a .dcm file, a file of another extension,
\* a directory named like a .dcm file
EntriesOf(stem) ==
    {DcmFile(stem, c) : c \in PipelineContents}
    \cup {[DcmFile(stem, NoEntry) EXCEPT !.ext = ".txt", !.sniff = "not_dicom",
                                         !.read = "InvalidDicomError"],
          [DcmFile(stem, NoEntry) EXCEPT !.is_file = FALSE, !.sniff = "oserror",
                                         !.read = "OSError"]}

InputDirs ==
    {UNION {g[st] : st \in 1..MaxFiles} :
        g \in [1..MaxFiles -> {{}} \cup {{e} : e \in UNION {EntriesOf(st) : st \in 1..MaxFiles}}]}

Artifacts == {None, Some("old")}

Init ==
    /\ pc = "find_dicom"
    /\ raw = <<>>
    /\ clean = <<>>
    /\ clean_once = <<>>
    /\ sanitize_values = FALSE
    /\ dicom_paths = <<>>
    /\ tag_dumps = <<>>
    /\ attempted = <<>>
    /\ input_dir \in {d \in InputDirs : \A e, o \in d : e.stem = o.stem => e = o}
    /\ df = None
    /\ out_dir \in [json : Artifacts, csv : Artifacts]
    /\ dump_dir \in [1..MaxFiles -> {None, Some([run |-> 0, size |-> "full"])}]
    /\ dump_log = <<>>
    /\ is_saved = FALSE
    /\ write_fault = NoFault
    /\ dump_result = NoResult
    /\ raised = "none"
    /\ stages = <<>>

\* dicom_paths = find_dicom(src_folder=cmd_args["input_path"], include_recursive=False)
FindDicom ==
    /\ pc = "find_dicom"
    /\ dicom_paths' = find_dicom(input_dir, TRUE, ".dcm")
    /\ stages' = Append(stages, "discover")
    /\ pc' = "extract_to_df"
    /\ UNCHANGED <<sanitizer_vars, sanitize_values, tag_dumps, attempted, input_dir, df, out_dir,
                   dump_dir, dump_log, is_saved, write_fault, dump_result, raised>>

\* df = extract_to_df(dicom_paths=dicom_paths)
ExtractToDf ==
    /\ pc = "extract_to_df"
    /\ LET r == extract_to_df(dicom_paths) IN
          /\ tag_dumps' = r.tag_dumps
          /\ attempted' = parse_tags(dicom_paths, FALSE).attempted
          /\ df' = r.df
          /\ raised' = r.raised
          /\ pc' = IF r.raised = "none" THEN "write_to_file" ELSE "crashed"
    /\ stages' = stages \o <<"parse", "tabulate">>
    /\ UNCHANGED <<sanitizer_vars, sanitize_values, dicom_paths, input_dir, out_dir,
                   dump_dir, dump_log, is_saved, write_fault, dump_result>>

\* write_to_file(df=df, dst_folder=cmd_args["output_path"])
WriteToFile ==
    /\ pc = "write_to_file"
    /\ \E f \in WriteFaults :
          LET w == write_to_file(df, out_dir, f) IN
             /\ out_dir' = w.out
             /\ is_saved' = w.ret
             /\ raised' = w.raised
             /\ write_fault' = IF w.struck THEN f ELSE NoFault
             /\ pc' = IF w.raised = "none" THEN "dump_dicom_all_tags" ELSE "crashed"
    /\ stages' = Append(stages, "write")
    /\ UNCHANGED <<sanitizer_vars, parser_vars, input_dir, df, dump_dir, dump_log,
                   dump_result>>

\* dump_dicom_all_tags(dicom_paths=dicom_paths, dst_folder=cmd_args["dump_path"])
DumpDicomAllTags ==
    /\ pc = "dump_dicom_all_tags"
    /\ \E faults \in FaultsFor(dicom_paths) :
          /\ dump_dir' = dump_dicom_all_tags(dicom_paths, dump_dir, 1, faults)
          /\ dump_result' = dump_outcome(dicom_paths, faults, dump_dir)
    /\ dump_log' = Append(dump_log, Stems(dicom_paths))
    /\ stages' = Append(stages, "dump")
    /\ pc' = "finish"
    /\ UNCHANGED <<sanitizer_vars, parser_vars, input_dir, df, out_dir, is_saved,
                   write_fault, raised>>

\* logger.info(f"{MODULE} finished: ...")
Finish ==
    /\ pc = "finish"
    /\ pc' = "done"
    /\ UNCHANGED <<sanitizer_vars, parser_vars, pipeline_vars>>

Next == FindDicom \/ ExtractToDf \/ WriteToFile \/ DumpDicomAllTags \/ Finish

Spec == Init /\ [][Next]_vars

\* write_to_file has been called and is over
WriteOver == pc \in {"dump_dicom_all_tags", "finish", "done", "crashed"}

StageOrder == <<"discover", "parse", "tabulate", "write", "dump">>

\* C2: a run with no record (no matching file, or none extracted) and no write
\* failure gets no table, writes no artifact, and no exception escapes it.
C2_EmptyRunEndsQuietly ==
    (WriteOver /\ tag_dumps = <<>> /\ write_fault = NoFault) =>
        /\ df = None
        /\ out_dir.json # Some("new") /\ out_dir.csv # Some("new")
        /\ raised = "none" /\ pc # "crashed"

\* C4: a write failure in write_to_file, at the JSON or at the CSV artifact, is
\* caught there: write_to_file returns False, no exception leaves it, and the
\* pipeline goes on.
C4_WriteFailureCaught ==
    (WriteOver /\ write_fault # NoFault) =>
        /\ raised = "none"
        /\ is_saved = FALSE
        /\ pc # "crashed"

\* C9: with no write failure, a run goes through discover, parse, tabulate,
\* write, dump in this order and is never stopped short of the final log,
\* whatever the input files.
C9_RunNeverStopped ==
    /\ stages = SubSeq(StageOrder, 1, Len(stages))
    /\ write_fault = NoFault => pc # "crashed"
    /\ pc = "done" => stages = StageOrder

\* C10: once write_to_file was called with a table and no deletion was refused,
\* neither artifact holds content of an earlier run, also when the JSON write
\* failed.
C10_NoStaleArtifact ==
    (WriteOver /\ df # None /\ write_fault.at \in {"none", "to_json", "to_csv"}) =>
        /\ out_dir.json # Some("old")
        /\ out_dir.csv # Some("old")

\* the raw value of attribute attr in the file at p, or Absent
RawValue(p, attr) == IF attr \in MetaAttrs THEN p.file_meta[attr] ELSE p.ds[attr]

\* C11: with sanitizing enabled every extracted value of a record, those of the
\* three metadata attributes included, is sanitize_tag of the raw value; with
\* sanitizing disabled every extracted value is the raw value.
C11_SanitizedEverywhere ==
    pc = "parsed" =>
        \A i \in 1..Len(tag_dumps) : \A attr \in Range(map_tag_objects) :
            LET v == RawValue(PathOf(tag_dumps[i]), attr)
            IN v # Absent =>
                tag_dumps[i][attr] = IF sanitize_values THEN sanitize_tag(Val(v)) ELSE Val(v)

\* the names of the paths given to parse_tags, in order
InputNames == [i \in 1..Len(dicom_paths) |-> PathName(dicom_paths[i])]

\* s is a subsequence of t: its elements, in order, are among those of t
RECURSIVE IsSubsequence(_, _)
IsSubsequence(s, t) ==
    IF s = <<>> THEN TRUE
    ELSE IF t = <<>> THEN FALSE
    ELSE IF Head(s) = Head(t) THEN IsSubsequence(Tail(s), Tail(t))
    ELSE IsSubsequence(s, Tail(t))

\* C12: the filename values of the records are a subsequence of the names of
\* the input paths, in input order; each path is taken up exactly once; and
\* the record of a file is the one parse_tags returns for that file alone.
C12_OrderedIndependent ==
    pc = "parsed" =>
        /\ IsSubsequence([k \in 1..Len(tag_dumps) |-> tag_dumps[k]["filename"]], InputNames)
        /\ attempted = InputNames
        /\ \A k \in 1..Len(tag_dumps) :
              <<tag_dumps[k]>> = parse_tags(<<PathOf(tag_dumps[k])>>, sanitize_values).tag_dumps

\* two files were taken up and gave two records, the first with a codec name
\* and the second, of a file without metadata attributes, without one
C12_Witness ==
    /\ pc = "parsed"
    /\ Len(tag_dumps) = 2
    /\ "transferSyntaxName" \in DOMAIN tag_dumps[1]
    /\ "transferSyntaxName" \notin DOMAIN tag_dumps[2]
    /\ Len(attempted) = 2

====
